---- MODULE Spec2Model ----
(***************************************************************************)
(* A model of the basic-wireframe rendering engine: the transform pipeline *)
(* (3d-utils.ts), Mesh3D, SceneObject, Camera, World and the procedural    *)
(* grid generator.                                                         *)
(*                                                                         *)
(* Numbers.  A JavaScript number is modelled as an exact real of the form  *)
(* (n + m * sqrt(2)) / d, written [n, m, d] in lowest terms with d > 0:    *)
(* the rationals and the square roots the bounding radii of the model's    *)
(* meshes need.  The two non-numbers the code can produce are kept apart   *)
(* by d = 0: NaN and the value `undefined' (the result of reading a        *)
(* property an object does not have).  Arithmetic on either yields NaN and *)
(* every ordered comparison with either is false, as in JavaScript.        *)
(* Rounding of IEEE doubles is not modelled: inputs are drawn from sets on *)
(* which every operation of the code is exact in this field.               *)
(***************************************************************************)
EXTENDS Integers, Sequences, FiniteSets, TLC

VARIABLES
    tanHalfFov,   \* Math.tan(halfFovRad) of the configured FOV
    aspectRatio,  \* ASPECT_RATIO of the configuration
    camera,       \* the Camera: [position, rotation]
    mesh,         \* mesh id -> Mesh3D fields
    inst,         \* instance id -> SceneObject fields
    objects,      \* World._objects: sequence of instance ids
    pc,           \* position inside drawWorld ("idle" between calls)
    idx,          \* loop index of the running drawWorld pass
    trace,        \* calls made by the current / latest drawWorld call
    fault,        \* TRUE when the latest drawWorld call ended by a TypeError
    lastOp,       \* the operation that produced this state
    probe,        \* argument and result of a pure function under test
    grid,         \* the locals of a running createGridMesh call
    anim          \* the entry file's globals: lastFrameTime, cameraAngle, the frame

vars == <<tanHalfFov, aspectRatio, camera, mesh, inst, objects, pc, idx,
          trace, fault, lastOp, probe, grid, anim>>

-----------------------------------------------------------------------------
(* Numbers *)

Abs(i) == IF i < 0 THEN -i ELSE i

RECURSIVE GCD(_, _)
GCD(a, b) == IF b = 0 THEN a ELSE GCD(b, a % b)

\* The number (n + m * sqrt(2)) / d (d # 0) in lowest terms with a positive
\* denominator.
Num(n, m, d) ==
    LET s == IF d < 0 THEN -1 ELSE 1
        g == GCD(GCD(Abs(n), Abs(m)), Abs(d))
    IN  [n |-> (s * n) \div g, m |-> (s * m) \div g, d |-> (s * d) \div g]

\* The rational num/den.
Q(num, den) == Num(num, 0, den)

I(k) == [n |-> k, m |-> 0, d |-> 1]

NaN == [n |-> 0, m |-> 0, d |-> 0]
Undefined == [n |-> 1, m |-> 0, d |-> 0]

IsNum(a) == a.d > 0

Zero == I(0)
One == I(1)

Add(a, b) ==
    IF IsNum(a) /\ IsNum(b)
    THEN Num(a.n * b.d + b.n * a.d, a.m * b.d + b.m * a.d, a.d * b.d)
    ELSE NaN

Neg(a) == IF IsNum(a) THEN [n |-> -a.n, m |-> -a.m, d |-> a.d] ELSE NaN

Sub(a, b) == Add(a, Neg(b))

Mul(a, b) ==
    IF IsNum(a) /\ IsNum(b)
    THEN Num(a.n * b.n + 2 * a.m * b.m, a.n * b.m + a.m * b.n, a.d * b.d)
    ELSE NaN

\* a / b.  The code divides only by safeZ (>= 0.1 or NaN) and by non-zero
\* literals, so a zero divisor does not occur.
Div(a, b) ==
    IF IsNum(a) /\ IsNum(b) /\ (b.n # 0 \/ b.m # 0)
    THEN Mul(a, Num(b.n * b.d, -(b.m * b.d), b.n * b.n - 2 * b.m * b.m))
    ELSE NaN

\* n + m * sqrt(2) > 0, for integers n and m.
Positive(n, m) ==
    \/ n > 0 /\ m >= 0
    \/ n >= 0 /\ m > 0
    \/ n > 0 /\ m < 0 /\ n * n > 2 * m * m
    \/ n < 0 /\ m > 0 /\ 2 * m * m > n * n

\* a < b, a > b, a <= b of JavaScript: false when either side is NaN.
Lt(a, b) == IsNum(a) /\ IsNum(b) /\ Positive(b.n * a.d - a.n * b.d, b.m * a.d - a.m * b.d)
Gt(a, b) == Lt(b, a)
Le(a, b) == IsNum(a) /\ IsNum(b) /\ ~Positive(a.n * b.d - b.n * a.d, a.m * b.d - b.m * a.d)

\* Math.max, Math.abs, Math.sqrt.
MathMax(a, b) == IF IsNum(a) /\ IsNum(b) THEN (IF Lt(a, b) THEN b ELSE a) ELSE NaN
MathAbs(a) == IF IsNum(a) THEN (IF Lt(a, Zero) THEN Neg(a) ELSE a) ELSE NaN

\* Math.sqrt of a rational n/d >= 0 that is a square (the root is rational)
\* or twice a square (the root is a rational multiple of sqrt(2)).  It has no
\* value elsewhere: the inputs of the model keep Math.sqrt within these.
IsSquare(k) == \E r \in 0..k : r * r = k
ISqrt(k) == CHOOSE r \in 0..k : r * r = k
MathSqrt(a) ==
    IF ~IsNum(a) \/ Lt(a, Zero) THEN NaN
    ELSE IF a.m = 0 /\ IsSquare(a.n * a.d) THEN Num(ISqrt(a.n * a.d), 0, a.d)
    ELSE IF a.m = 0 /\ IsSquare(2 * a.n * a.d) THEN Num(0, ISqrt(2 * a.n * a.d), 2 * a.d)
    ELSE CHOOSE r \in {} : TRUE

\* Math.cos / Math.sin of an angle given in degrees, as the code computes
\* them after its degree-to-radian conversion.  The only angles with a
\* rational sine and cosine and a rational degree measure are the multiples
\* of 90; to have a rotation that is not a permutation of the axes, the
\* degree value 53 stands for the angle arctan(4/3) = 53.13.. degrees, whose
\* cosine is 3/5 and sine 4/5, -53 for its negative, and 127 and -127 for
\* that angle taken from 180 and -180 (126.87.. degrees).
Angles ==
    {I(0), I(45), I(-45), I(90), I(-90), I(135), I(-135), I(180), I(-180),
     I(53), I(-53), I(127), I(-127)}

\* The angle in (-180, 180] that differs from a whole number of degrees a
\* by full turns: sine and cosine have the period 360.
Principal(a) ==
    IF a.m = 0 /\ a.d = 1 THEN I(((a.n + 179) % 360) - 179) ELSE a

CosPrincipal(a) ==
    CASE a = I(0) -> I(1)
      [] a \in {I(90), I(-90)} -> I(0)
      [] a = I(180) -> I(-1)
      [] a \in {I(53), I(-53)} -> Q(3, 5)
      [] a \in {I(127), I(-127)} -> Q(-3, 5)
      [] a \in {I(45), I(-45)} -> Num(0, 1, 2)
      [] a \in {I(135), I(-135)} -> Num(0, -1, 2)

CosDeg(a) == IF ~IsNum(a) THEN NaN ELSE CosPrincipal(Principal(a))

SinPrincipal(a) ==
    CASE a \in {I(0), I(180)} -> I(0)
      [] a = I(90) -> I(1)
      [] a = I(-90) -> I(-1)
      [] a \in {I(53), I(127)} -> Q(4, 5)
      [] a \in {I(-53), I(-127)} -> Q(-4, 5)
      [] a \in {I(45), I(135)} -> Num(0, 1, 2)
      [] a \in {I(-45), I(-135)} -> Num(0, -1, 2)

SinDeg(a) == IF ~IsNum(a) THEN NaN ELSE SinPrincipal(Principal(a))

\* Math.atan2(y, x) * (180 / Math.PI): the angle in (-180, 180] of the
\* direction (x, y), 0 for (0, 0).  It has a value for the directions of the
\* angles above.
Atan2Deg(y, x) ==
    IF ~IsNum(y) \/ ~IsNum(x) THEN NaN
    ELSE IF y = Zero /\ x = Zero THEN Zero
    ELSE CHOOSE a \in Angles \ {I(-180)} :
            /\ Mul(SinDeg(a), x) = Mul(CosDeg(a), y)
            /\ Le(Zero, Mul(SinDeg(a), y))
            /\ Le(Zero, Mul(CosDeg(a), x))

-----------------------------------------------------------------------------
(* Points and configuration *)

Point3D(px, py, pz) == [x |-> px, y |-> py, z |-> pz]
Point2D(px, py) == [x |-> px, y |-> py]
P3(a, b, c) == Point3D(I(a), I(b), I(c))

VISIBLE == "VISIBLE"
CULLED == "CULLED"

\* constants.ts is not part of the sources at hand; the screen centre is a
\* fixed pair of pixel coordinates and the focal length is 1 / tan(FOV / 2).
HALF_SCREEN_WIDTH == I(400)
HALF_SCREEN_HEIGHT == I(300)
FOCAL_LENGTH == Div(One, tanHalfFov)

nearPlane == Q(1, 10)
farPlane == I(1000)
ndcToScreenSpaceScale == I(200)


-----------------------------------------------------------------------------
(* Property reads.  obj.x of JavaScript: the field when the object has it, *)
(* `undefined' otherwise (an edge pair [p1, p2] or a Polygon3D has no x).  *)

GetX(v) == IF "x" \in DOMAIN v THEN v.x ELSE Undefined
GetY(v) == IF "y" \in DOMAIN v THEN v.y ELSE Undefined
GetZ(v) == IF "z" \in DOMAIN v THEN v.z ELSE Undefined

\* A JavaScript array value, as opposed to `undefined'.
Array(s) == [arr |-> s]
IsArray(v) == "arr" \in DOMAIN v

\* An edge of a mesh: the tuple [p1, p2] of two point indices.
Edge(p1, p2) == [a |-> p1, b |-> p2]

Polygon3D(c, indices) == [color |-> c, vertexIndices |-> indices]

-----------------------------------------------------------------------------
(* 3d-utils.ts: the transform pipeline *)

\* projectToNDC dividing by the depth as it is.
projectToNDC_noClamp(cameraPoint) ==
    LET perspectiveFactor == Div(FOCAL_LENGTH, GetZ(cameraPoint))
    IN  Point3D(Mul(GetX(cameraPoint), perspectiveFactor),
                Mul(GetY(cameraPoint), perspectiveFactor), GetZ(cameraPoint))

projectToNDC(cameraPoint) ==
    LET safeZ == MathMax(GetZ(cameraPoint), Q(1, 10))
        perspectiveFactor == Div(FOCAL_LENGTH, safeZ)
        ndcX == Mul(GetX(cameraPoint), perspectiveFactor)
        ndcY == Mul(GetY(cameraPoint), perspectiveFactor)
    IN  Point3D(ndcX, ndcY, safeZ)

\* ndcToScreenSpace centring both axes on the screen's half-width.
ndcToScreenSpace_sameCenter(ndcPoint) ==
    LET screenX == Add(HALF_SCREEN_WIDTH, Mul(ndcPoint.x, ndcToScreenSpaceScale))
        screenY == Sub(HALF_SCREEN_WIDTH, Mul(ndcPoint.y, ndcToScreenSpaceScale))
    IN  Point2D(screenX, screenY)

ndcToScreenSpace(ndcPoint) ==
    LET screenX == Add(HALF_SCREEN_WIDTH, Mul(ndcPoint.x, ndcToScreenSpaceScale))
        screenY == Sub(HALF_SCREEN_HEIGHT, Mul(ndcPoint.y, ndcToScreenSpaceScale))
    IN  Point2D(screenX, screenY)

project3DPoint(cameraPoint) == ndcToScreenSpace(projectToNDC(cameraPoint))

\* The three axis rotations the code writes out inline, by an angle in
\* degrees: each returns the rotated point.
RotX(p, deg) ==
    LET c == CosDeg(deg)
        s == SinDeg(deg)
    IN  Point3D(p.x, Sub(Mul(p.y, c), Mul(p.z, s)), Add(Mul(p.y, s), Mul(p.z, c)))

RotY(p, deg) ==
    LET c == CosDeg(deg)
        s == SinDeg(deg)
    IN  Point3D(Add(Mul(p.x, c), Mul(p.z, s)), p.y, Add(Mul(Neg(p.x), s), Mul(p.z, c)))

RotZ(p, deg) ==
    LET c == CosDeg(deg)
        s == SinDeg(deg)
    IN  Point3D(Sub(Mul(p.x, c), Mul(p.y, s)), Add(Mul(p.x, s), Mul(p.y, c)), p.z)

\* applyTransformToPoint rotating about Z first, then Y, then X.
applyTransformToPoint_ZYX(point, sceneObject) ==
    LET p0 == Point3D(Mul(GetX(point), sceneObject.scale.x),
                      Mul(GetY(point), sceneObject.scale.y),
                      Mul(GetZ(point), sceneObject.scale.z))
        p3 == RotX(RotY(RotZ(p0, sceneObject.rotation.z), sceneObject.rotation.y),
                   sceneObject.rotation.x)
    IN  Point3D(Add(p3.x, sceneObject.position.x),
                Add(p3.y, sceneObject.position.y),
                Add(p3.z, sceneObject.position.z))

applyTransformToPoint(point, sceneObject) ==
    LET p0 == Point3D(Mul(GetX(point), sceneObject.scale.x),
                      Mul(GetY(point), sceneObject.scale.y),
                      Mul(GetZ(point), sceneObject.scale.z))
        p1 == IF sceneObject.rotation.x # Zero THEN RotX(p0, sceneObject.rotation.x) ELSE p0
        p2 == IF sceneObject.rotation.y # Zero THEN RotY(p1, sceneObject.rotation.y) ELSE p1
        p3 == IF sceneObject.rotation.z # Zero THEN RotZ(p2, sceneObject.rotation.z) ELSE p2
    IN  Point3D(Add(p3.x, sceneObject.position.x),
                Add(p3.y, sceneObject.position.y),
                Add(p3.z, sceneObject.position.z))

\* worldToCameraSpace undoing the pitch before the yaw.
worldToCameraSpace_XYZ(worldPoint, cam) ==
    RotZ(RotY(RotX(Point3D(Sub(worldPoint.x, cam.position.x),
                           Sub(worldPoint.y, cam.position.y),
                           Sub(worldPoint.z, cam.position.z)),
                   Neg(cam.rotation.x)),
              Neg(cam.rotation.y)),
         Neg(cam.rotation.z))

worldToCameraSpace(worldPoint, cam) ==
    LET p0 == Point3D(Sub(worldPoint.x, cam.position.x),
                      Sub(worldPoint.y, cam.position.y),
                      Sub(worldPoint.z, cam.position.z))
        p1 == IF cam.rotation.y # Zero THEN RotY(p0, Neg(cam.rotation.y)) ELSE p0
        p2 == IF cam.rotation.x # Zero THEN RotX(p1, Neg(cam.rotation.x)) ELSE p1
        p3 == IF cam.rotation.z # Zero THEN RotZ(p2, Neg(cam.rotation.z)) ELSE p2
    IN  p3

-----------------------------------------------------------------------------
(* Camera.ts *)

\* new Camera(position, rotation)
Camera(position, rotation) == [position |-> position, rotation |-> rotation]

\* createOrbital pitching towards the target with the sign of the elevation
\* kept.
createOrbital_pitchUp(distance, angleY, angleX, target) ==
    LET cosX == CosDeg(angleX)
        x == Add(target.x, Mul(Mul(distance, SinDeg(angleY)), cosX))
        y == Add(target.y, Mul(distance, SinDeg(angleX)))
        z == Add(target.z, Mul(Mul(distance, CosDeg(angleY)), cosX))
    IN  Camera([x |-> x, y |-> y, z |-> z],
               [x |-> Atan2Deg(Sub(target.y, y),
                               MathSqrt(Add(Mul(Sub(target.x, x), Sub(target.x, x)),
                                            Mul(Sub(target.z, z), Sub(target.z, z))))),
                y |-> Atan2Deg(Sub(target.x, x), Sub(target.z, z)),
                z |-> Zero])

\* Camera.createOrbital(distance, angleY, angleX, target)
createOrbital(distance, angleY, angleX, target) ==
    LET cosX == CosDeg(angleX)
        x == Add(target.x, Mul(Mul(distance, SinDeg(angleY)), cosX))
        y == Add(target.y, Mul(distance, SinDeg(angleX)))
        z == Add(target.z, Mul(Mul(distance, CosDeg(angleY)), cosX))
        dx == Sub(target.x, x)
        dy == Sub(target.y, y)
        dz == Sub(target.z, z)
        rotY == Atan2Deg(dx, dz)
        distanceXZ == MathSqrt(Add(Mul(dx, dx), Mul(dz, dz)))
        rotX == Neg(Atan2Deg(dy, distanceXZ))
    IN  Camera([x |-> x, y |-> y, z |-> z], [x |-> rotX, y |-> rotY, z |-> Zero])

-----------------------------------------------------------------------------
(* Frustum culling *)

\* isObjectInFrustum taking the frustum to open towards -Z.
isObjectInFrustum_negZ(cameraSpaceCenter, boundingRadius) ==
    LET halfHeight == Mul(tanHalfFov, Neg(cameraSpaceCenter.z))
        halfWidth == Mul(halfHeight, aspectRatio)
    IN  IF Lt(Add(cameraSpaceCenter.z, boundingRadius), nearPlane) THEN FALSE
        ELSE IF Gt(Sub(cameraSpaceCenter.z, boundingRadius), farPlane) THEN FALSE
        ELSE IF Gt(Sub(cameraSpaceCenter.x, boundingRadius), halfWidth) THEN FALSE
        ELSE IF Lt(Add(cameraSpaceCenter.x, boundingRadius), Neg(halfWidth)) THEN FALSE
        ELSE IF Gt(Sub(cameraSpaceCenter.y, boundingRadius), halfHeight) THEN FALSE
        ELSE IF Lt(Add(cameraSpaceCenter.y, boundingRadius), Neg(halfHeight)) THEN FALSE
        ELSE TRUE

\* isObjectInFrustum without its near-plane test.
isObjectInFrustum_noNear(cameraSpaceCenter, boundingRadius) ==
    LET halfHeight == Mul(tanHalfFov, cameraSpaceCenter.z)
        halfWidth == Mul(halfHeight, aspectRatio)
    IN  IF Gt(Sub(cameraSpaceCenter.z, boundingRadius), farPlane) THEN FALSE
        ELSE IF Gt(Sub(cameraSpaceCenter.x, boundingRadius), halfWidth) THEN FALSE
        ELSE IF Lt(Add(cameraSpaceCenter.x, boundingRadius), Neg(halfWidth)) THEN FALSE
        ELSE IF Gt(Sub(cameraSpaceCenter.y, boundingRadius), halfHeight) THEN FALSE
        ELSE IF Lt(Add(cameraSpaceCenter.y, boundingRadius), Neg(halfHeight)) THEN FALSE
        ELSE TRUE

\* isObjectInFrustum without its far-plane test.
isObjectInFrustum_noFar(cameraSpaceCenter, boundingRadius) ==
    LET halfHeight == Mul(tanHalfFov, cameraSpaceCenter.z)
        halfWidth == Mul(halfHeight, aspectRatio)
    IN  IF Lt(Add(cameraSpaceCenter.z, boundingRadius), nearPlane) THEN FALSE
        ELSE IF Gt(Sub(cameraSpaceCenter.x, boundingRadius), halfWidth) THEN FALSE
        ELSE IF Lt(Add(cameraSpaceCenter.x, boundingRadius), Neg(halfWidth)) THEN FALSE
        ELSE IF Gt(Sub(cameraSpaceCenter.y, boundingRadius), halfHeight) THEN FALSE
        ELSE IF Lt(Add(cameraSpaceCenter.y, boundingRadius), Neg(halfHeight)) THEN FALSE
        ELSE TRUE

isObjectInFrustum(cameraSpaceCenter, boundingRadius) ==
    LET halfHeight == Mul(tanHalfFov, cameraSpaceCenter.z)
        halfWidth == Mul(halfHeight, aspectRatio)
    IN  IF Lt(Add(cameraSpaceCenter.z, boundingRadius), nearPlane) THEN FALSE
        ELSE IF Gt(Sub(cameraSpaceCenter.z, boundingRadius), farPlane) THEN FALSE
        ELSE IF Gt(Sub(cameraSpaceCenter.x, boundingRadius), halfWidth) THEN FALSE
        ELSE IF Lt(Add(cameraSpaceCenter.x, boundingRadius), Neg(halfWidth)) THEN FALSE
        ELSE IF Gt(Sub(cameraSpaceCenter.y, boundingRadius), halfHeight) THEN FALSE
        ELSE IF Lt(Add(cameraSpaceCenter.y, boundingRadius), Neg(halfHeight)) THEN FALSE
        ELSE TRUE

-----------------------------------------------------------------------------
(* Mesh3D.ts *)

\* Mesh3D.calculateBoundingRadius: maxRadiusSquared after the first k
\* iterations of its loop over the point list.
RECURSIVE MaxRadiusSquared(_, _)
MaxRadiusSquared(points, k) ==
    IF k = 0 THEN Zero
    ELSE LET maxRadiusSquared == MaxRadiusSquared(points, k - 1)
             point == points[k]
             distSquared == Add(Add(Mul(point.x, point.x), Mul(point.y, point.y)),
                                Mul(point.z, point.z))
         IN  IF Gt(distSquared, maxRadiusSquared) THEN distSquared ELSE maxRadiusSquared

calculateBoundingRadius(points) == MathSqrt(MaxRadiusSquared(points, Len(points)))

\* new Mesh3D(points, vertices, polygons)
Mesh3D(points, vertices, polygons) ==
    [points |-> points, vertices |-> vertices, polygons |-> polygons,
     boundingRadius |-> calculateBoundingRadius(points)]

\* setPoints that keeps the radius computed at construction.
setPoints_stale(m, points) == [m EXCEPT !.points = points]

\* Mesh3D.setPoints, setVertices and setPolygons: the mesh after the call.
setPoints(m, points) ==
    [m EXCEPT !.points = points, !.boundingRadius = calculateBoundingRadius(points)]

setVertices(m, vertices) == [m EXCEPT !.vertices = vertices]

setPolygons(m, polygons) == [m EXCEPT !.polygons = polygons]

\* rotateMesh3DY(mesh, angleInDegrees): the mesh after the call.  The
\* function reads the array mesh.getVertices() returns, whose elements are
\* the mesh's edges, and stores the rotated result with mesh.setVertices().
RotatedVertex(vertex, angleInDegrees) ==
    LET cosAngle == CosDeg(angleInDegrees)
        sinAngle == SinDeg(angleInDegrees)
        newX == Add(Mul(GetX(vertex), cosAngle), Mul(GetZ(vertex), sinAngle))
        newY == GetY(vertex)
        newZ == Add(Mul(Neg(GetX(vertex)), sinAngle), Mul(GetZ(vertex), cosAngle))
    IN  Point3D(newX, newY, newZ)

\* rotateMesh3DY rotating the point list with sine and cosine exchanged.
rotateMesh3DY_swapped(m, angleInDegrees) ==
    LET cosAngle == CosDeg(angleInDegrees)
        sinAngle == SinDeg(angleInDegrees)
        rotatedPoints ==
            [i \in 1..Len(m.points) |->
                Point3D(Add(Mul(m.points[i].x, sinAngle), Mul(m.points[i].z, cosAngle)),
                        m.points[i].y,
                        Add(Mul(Neg(m.points[i].x), cosAngle), Mul(m.points[i].z, sinAngle)))]
    IN  setPoints(m, rotatedPoints)

rotateMesh3DY(m, angleInDegrees) ==
    LET rotatedVertices ==
            [i \in 1..Len(m.vertices) |-> RotatedVertex(m.vertices[i], angleInDegrees)]
    IN  setVertices(m, rotatedVertices)

\* createMesh3DFromJSONData: the constructor is called with two arguments,
\* so its third parameter, polygons, is `undefined'.
createMesh3DFromJSONData(jsonVertices, jsonPolygons) ==
    Mesh3D(jsonVertices, jsonPolygons, Undefined)

-----------------------------------------------------------------------------
(* 3d-object-generators: createGridMesh *)

MaxGrid == 3

\* The two point loops: (gridSize + 1)^2 points, row by row.
GridPoints(gridSize, cellSize) ==
    LET pointsPerSide == gridSize + 1
        halfSize == Div(Mul(I(gridSize), cellSize), I(2))
    IN  [k \in 1..(pointsPerSide * pointsPerSide) |->
            LET x == (k - 1) % pointsPerSide
                z == (k - 1) \div pointsPerSide
            IN  Point3D(Sub(Mul(I(x), cellSize), halfSize), Zero,
                        Sub(Mul(I(z), cellSize), halfSize))]

getPointIndex(x, z, pointsPerSide) == z * pointsPerSide + x

\* The key addEdge forms for the edge map: the smaller index first.  The
\* string `${a}-${b}' of two non-negative integers is kept as the pair.
EdgeKey_directed(p1, p2) == <<p1, p2>>

EdgeKey(p1, p2) == IF p1 < p2 THEN <<p1, p2>> ELSE <<p2, p1>>

\* addEdge(p1, p2) on the locals [vertices, edgeMap, edgeIndex]: the locals
\* after the call, with the returned edge index in ret.
addEdge(st, p1, p2) ==
    LET key == EdgeKey(p1, p2)
    IN  IF key \notin DOMAIN st.edgeMap
        THEN [st EXCEPT !.vertices = Append(st.vertices, Edge(p1, p2)),
                        !.edgeMap = (key :> st.edgeIndex) @@ st.edgeMap,
                        !.edgeIndex = st.edgeIndex + 1,
                        !.ret = st.edgeIndex]
        ELSE [st EXCEPT !.ret = st.edgeMap[key]]

\* The body of the cell loop for the cell (x, z): two triangles and their
\* edges.
GridCell(st, x, z, gridSize, color) ==
    LET pointsPerSide == gridSize + 1
        topLeft == getPointIndex(x, z, pointsPerSide)
        topRight == getPointIndex(x + 1, z, pointsPerSide)
        bottomLeft == getPointIndex(x, z + 1, pointsPerSide)
        bottomRight == getPointIndex(x + 1, z + 1, pointsPerSide)
        s1 == addEdge(st, topLeft, topRight)
        s2 == addEdge(s1, topRight, bottomLeft)
        s3 == addEdge(s2, bottomLeft, topLeft)
        t1 == [s3 EXCEPT !.polygons = Append(s3.polygons, Polygon3D(color, <<s1.ret, s2.ret, s3.ret>>))]
        s4 == addEdge(t1, topRight, bottomRight)
        s5 == addEdge(s4, bottomRight, bottomLeft)
        s6 == addEdge(s5, bottomLeft, topRight)
    IN  [s6 EXCEPT !.polygons = Append(s6.polygons, Polygon3D(color, <<s4.ret, s5.ret, s6.ret>>))]

\* The locals before the cell loop.
GridLocals ==
    [vertices |-> <<>>, edgeMap |-> <<>>, edgeIndex |-> 0, polygons |-> <<>>, ret |-> 0]

\* The locals after the cells k, k + 1, .. of the cell loop (row by row).
RECURSIVE GridCellsFrom(_, _, _, _)
GridCellsFrom(st, k, gridSize, color) ==
    IF k >= gridSize * gridSize THEN st
    ELSE GridCellsFrom(GridCell(st, k % gridSize, k \div gridSize, gridSize, color),
                       k + 1, gridSize, color)

createGridMesh(gridSize, cellSize, color) ==
    LET st == GridCellsFrom(GridLocals, 0, gridSize, color)
    IN  Mesh3D(GridPoints(gridSize, cellSize), st.vertices, Array(st.polygons))

-----------------------------------------------------------------------------
(* SceneObject *)

Vec(a, b, c) == [x |-> a, y |-> b, z |-> c]
V3(a, b, c) == Vec(I(a), I(b), I(c))

\* new SceneObject(mesh, position, rotation, scale); mesh is a mesh id.
SceneObject(m, position, rotation, scale) ==
    [mesh |-> m, position |-> position, rotation |-> rotation, scale |-> scale,
     visibilityState |-> VISIBLE]

\* getWorldBoundingRadius taking the largest factor without Math.abs.
getWorldBoundingRadius_noAbs(sceneObject) ==
    LET meshRadius == mesh[sceneObject.mesh].boundingRadius
        maxScale == MathMax(MathMax(sceneObject.scale.x, sceneObject.scale.y),
                            sceneObject.scale.z)
    IN  Mul(meshRadius, maxScale)

\* getWorldBoundingRadius taking the smallest absolute factor.
getWorldBoundingRadius_minScale(sceneObject) ==
    LET meshRadius == mesh[sceneObject.mesh].boundingRadius
        absX == MathAbs(sceneObject.scale.x)
        absY == MathAbs(sceneObject.scale.y)
        absZ == MathAbs(sceneObject.scale.z)
        minXY == IF Lt(absX, absY) THEN absX ELSE absY
        minScale == IF Lt(minXY, absZ) THEN minXY ELSE absZ
    IN  Mul(meshRadius, minScale)

getWorldBoundingRadius(sceneObject) ==
    LET meshRadius == mesh[sceneObject.mesh].boundingRadius
        maxScale == MathMax(MathMax(MathAbs(sceneObject.scale.x), MathAbs(sceneObject.scale.y)),
                            MathAbs(sceneObject.scale.z))
    IN  Mul(meshRadius, maxScale)

\* setVisibilityState also moving the instance to the origin.
setVisibilityState_moves(sceneObject, state) ==
    [sceneObject EXCEPT !.visibilityState = state, !.position = V3(0, 0, 0)]

\* SceneObject.setVisibilityState: the instance after the call.
setVisibilityState(sceneObject, state) == [sceneObject EXCEPT !.visibilityState = state]

isVisible(o) == inst[o].visibilityState = VISIBLE

\* cullSceneObject keeping an instance CULLED once it has been culled.
cullSceneObject_sticky(o, cam) ==
    IF inst[o].visibilityState = CULLED THEN CULLED
    ELSE IF isObjectInFrustum(worldToCameraSpace(inst[o].position, cam),
                              getWorldBoundingRadius(inst[o]))
         THEN VISIBLE ELSE CULLED

\* cullSceneObject: the visibility state it stores for instance o.
cullSceneObject(o, cam) ==
    LET worldCenter == Point3D(inst[o].position.x, inst[o].position.y, inst[o].position.z)
        cameraSpaceCenter == worldToCameraSpace(worldCenter, cam)
        boundingRadius == getWorldBoundingRadius(inst[o])
        visible == isObjectInFrustum(cameraSpaceCenter, boundingRadius)
    IN  IF visible THEN VISIBLE ELSE CULLED

\* The polygon loop reading projectedPoints with every index wrapped into
\* the array's range.
RECURSIVE PolygonLoop_wrapped(_, _, _)
PolygonLoop_wrapped(polygons, projectedPoints, o) ==
    IF polygons = <<>> THEN <<>>
    ELSE LET polygon == Head(polygons)
             indices == polygon.vertexIndices
             n == Len(indices)
             Wrap(i) == IF projectedPoints = <<>> THEN 1 ELSE (i % Len(projectedPoints)) + 1
         IN  [k \in 1..n |->
                 [call |-> "drawLine", o |-> o,
                  x1 |-> projectedPoints[Wrap(indices[k])].x,
                  y1 |-> projectedPoints[Wrap(indices[k])].y,
                  x2 |-> projectedPoints[Wrap(indices[(k % n) + 1])].x,
                  y2 |-> projectedPoints[Wrap(indices[(k % n) + 1])].y,
                  color |-> polygon.color]]
             \o PolygonLoop_wrapped(Tail(polygons), projectedPoints, o)

\* The calls of drawSceneObject's polygon loop in order, each a drawLine call
\* or, where projectedPoints has no element at an index, the TypeError of
\* reading .x of undefined.
RECURSIVE PolygonLoop(_, _, _)
PolygonLoop(polygons, projectedPoints, o) ==
    IF polygons = <<>> THEN <<>>
    ELSE LET polygon == Head(polygons)
             indices == polygon.vertexIndices
             n == Len(indices)
             InRange(i) == i >= 0 /\ i < Len(projectedPoints)
         IN  [k \in 1..n |->
                 LET a == indices[k]
                     b == indices[(k % n) + 1]
                 IN  IF InRange(a) /\ InRange(b)
                     THEN [call |-> "drawLine", o |-> o,
                           x1 |-> projectedPoints[a + 1].x, y1 |-> projectedPoints[a + 1].y,
                           x2 |-> projectedPoints[b + 1].x, y2 |-> projectedPoints[b + 1].y,
                           color |-> polygon.color]
                     ELSE [call |-> "TypeError", o |-> o]]
             \o PolygonLoop(Tail(polygons), projectedPoints, o)

\* The part of the polygon loop that runs: all of it, or the calls before
\* the first TypeError, which ends the function.
UntilThrown(steps) ==
    LET errors == {k \in 1..Len(steps) : steps[k].call = "TypeError"}
    IN  IF errors = {} THEN [calls |-> steps, thrown |-> FALSE]
        ELSE LET first == CHOOSE k \in errors : \A j \in errors : k <= j
             IN  [calls |-> SubSeq(steps, 1, first - 1), thrown |-> TRUE]

\* vertices3D.map(...): the screen point of every element of getVertices().
ProjectedPoints(vertices3D, sceneObject, cam) ==
    [k \in 1..Len(vertices3D) |->
        project3DPoint(worldToCameraSpace(applyTransformToPoint(vertices3D[k], sceneObject),
                                          cam))]

\* drawSceneObject for instance o: the drawLine calls it makes, and whether
\* it ends by a TypeError (iterating polygons that are undefined, or reading
\* a projected point that does not exist).
drawSceneObject(o, cam) ==
    IF ~IsArray(mesh[inst[o].mesh].polygons) THEN [calls |-> <<>>, thrown |-> TRUE]
    ELSE UntilThrown(PolygonLoop(mesh[inst[o].mesh].polygons.arr,
                                 ProjectedPoints(mesh[inst[o].mesh].vertices, inst[o], cam),
                                 o))

-----------------------------------------------------------------------------
(* Operations on instances and the camera, called between drawWorld calls. *)
(* The calls recorded in trace belong to the latest drawWorld call; any    *)
(* later operation starts a new observation.                               *)

Idle == pc = "idle"

Observe(op) ==
    /\ lastOp' = op
    /\ trace' = <<>>
    /\ fault' = FALSE

SetPosition(o, v) ==
    /\ Idle
    /\ inst' = [inst EXCEPT ![o].position = v]
    /\ Observe([op |-> "setPosition", o |-> o, arg |-> v])
    /\ UNCHANGED <<tanHalfFov, aspectRatio, camera, mesh, objects, pc, idx, probe, grid, anim>>

SetScale(o, v) ==
    /\ Idle
    /\ inst' = [inst EXCEPT ![o].scale = v]
    /\ Observe([op |-> "setScale", o |-> o, arg |-> v])
    /\ UNCHANGED <<tanHalfFov, aspectRatio, camera, mesh, objects, pc, idx, probe, grid, anim>>

SetUniformScale(o, k) ==
    /\ Idle
    /\ inst' = [inst EXCEPT ![o].scale = Vec(k, k, k)]
    /\ Observe([op |-> "setUniformScale", o |-> o, arg |-> k])
    /\ UNCHANGED <<tanHalfFov, aspectRatio, camera, mesh, objects, pc, idx, probe, grid, anim>>

\* A direct call of the exported cullSceneObject(sceneObject, camera).
CullSceneObject(o) ==
    /\ Idle
    /\ inst' = [inst EXCEPT ![o] = setVisibilityState(inst[o], cullSceneObject(o, camera))]
    /\ Observe([op |-> "cullSceneObject", o |-> o])
    /\ UNCHANGED <<tanHalfFov, aspectRatio, camera, mesh, objects, pc, idx, probe, grid, anim>>

-----------------------------------------------------------------------------
(* One instance of one mesh under every configuration of a bounded set:    *)
(* culling and scaling.                                                    *)

TanSet == {Q(1, 2), I(1), I(2)}
AspectSet == {I(1), I(2)}

NoCamera == [position |-> V3(0, 0, 0), rotation |-> V3(0, 0, 0)]
CameraSet == {NoCamera, [position |-> V3(0, 0, 10), rotation |-> V3(0, 180, 0)]}

PointListSet ==
    {<<>>, <<P3(0, 0, 0)>>, <<P3(3, 0, 0)>>, <<P3(1, 0, 0), P3(0, -3, 4)>>}

PositionSet ==
    {V3(0, 0, 5), V3(0, 0, -100), V3(12, 0, 10), V3(-12, 0, 10), V3(0, 12, 10),
     V3(0, -12, 10), V3(3, 0, -10), V3(0, 0, -1), V3(0, 0, 0), V3(0, 0, 1000),
     V3(0, 0, 1005), Vec(I(0), I(0), Q(1, 20))}

InitScaleSet == {V3(1, 1, 1), Vec(Q(1, 2), Q(1, 2), Q(1, 2))}
SetScaleSet == {V3(-2, 1, 0), V3(0, 0, 0), V3(1, -3, 2)}
UniformScaleSet == {I(12), I(-1), I(4)}

NoProbe == [kind |-> "none"]
NoGrid == [kind |-> "none"]
NoAnim == [kind |-> "none"]

InitInstance ==
    /\ tanHalfFov \in TanSet
    /\ aspectRatio \in AspectSet
    /\ camera \in CameraSet
    /\ \E points \in PointListSet : mesh = [m \in {1} |-> Mesh3D(points, <<>>, Array(<<>>))]
    /\ \E position \in PositionSet, scale \in InitScaleSet :
          inst = [o \in {1} |-> SceneObject(1, position, V3(0, 0, 0), scale)]
    /\ objects = <<>>
    /\ pc = "idle"
    /\ idx = 0
    /\ trace = <<>>
    /\ fault = FALSE
    /\ lastOp = [op |-> "new"]
    /\ probe = NoProbe
    /\ grid = NoGrid
    /\ anim = NoAnim

NextInstance ==
    \/ \E v \in SetScaleSet : SetScale(1, v)
    \/ \E k \in UniformScaleSet : SetUniformScale(1, k)
    \/ CullSceneObject(1)

SpecInstance == InitInstance /\ [][NextInstance]_vars

-----------------------------------------------------------------------------
(* Culling and scaling properties, checked under SpecInstance. *)

\* The camera-space sphere cullSceneObject tests for instance o.
CameraSpaceCenter(o) == worldToCameraSpace(inst[o].position, camera)

JustCulled(o) == lastOp = [op |-> "cullSceneObject", o |-> o]

\* Geometry of the view frustum itself: a point lies in it when it is between
\* the near and far planes and inside the four side planes at its own depth.
PointInFrustum(p) ==
    /\ Le(nearPlane, p.z) /\ Le(p.z, farPlane)
    /\ Le(MathAbs(p.x), Mul(Mul(tanHalfFov, aspectRatio), p.z))
    /\ Le(MathAbs(p.y), Mul(tanHalfFov, p.z))

Sq(a) == Mul(a, a)

DistSquared(p, q) == Add(Add(Sq(Sub(p.x, q.x)), Sq(Sub(p.y, q.y))), Sq(Sub(p.z, q.z)))

PointInSphere(p, center, radius) == Le(DistSquared(p, center), Sq(radius))

SampleCoords == {I(-1), I(0), Q(1, 2), I(1), I(5), I(11)}
SamplePoints == {Point3D(a, b, c) : a \in SampleCoords, b \in SampleCoords, c \in SampleCoords}

SphereMeetsFrustum(center, radius) ==
    \E p \in SamplePoints : PointInSphere(p, center, radius) /\ PointInFrustum(p)

\* C1: frustum culling never hides something visible: whenever the bounding
\* sphere of an instance (camera-space center, radius >= 0) has a point inside
\* the view frustum, cullSceneObject leaves the instance VISIBLE.
C1_NeverHidesVisible ==
    JustCulled(1) /\ SphereMeetsFrustum(CameraSpaceCenter(1), getWorldBoundingRadius(inst[1]))
        => inst[1].visibilityState = VISIBLE

\* C4: an instance whose camera-space center is (0,0,d) with nearPlane < d <
\* farPlane and whose bounding radius is 0 is classified VISIBLE, for every
\* FOV and aspect ratio of the configuration; each of its mesh points (all at
\* the center) then projects to (HALF_SCREEN_WIDTH, HALF_SCREEN_HEIGHT).
OnAxisPoint(o) ==
    LET c == CameraSpaceCenter(o)
    IN  /\ c.x = Zero /\ c.y = Zero
        /\ Lt(nearPlane, c.z) /\ Lt(c.z, farPlane)
        /\ getWorldBoundingRadius(inst[o]) = Zero

ScreenPoint(o, point) ==
    project3DPoint(worldToCameraSpace(applyTransformToPoint(point, inst[o]), camera))

C4_OnAxisVisible ==
    JustCulled(1) /\ OnAxisPoint(1)
        => /\ inst[1].visibilityState = VISIBLE
           /\ \A i \in 1..Len(mesh[1].points) :
                 ScreenPoint(1, mesh[1].points[i]) = Point2D(HALF_SCREEN_WIDTH, HALF_SCREEN_HEIGHT)

\* The concrete scenario: a single-point mesh at the origin, instanced at
\* (0,0,5) with unit scale, seen by a camera at the origin with no rotation.
C4_Witness ==
    /\ JustCulled(1) /\ OnAxisPoint(1)
    /\ camera = NoCamera
    /\ mesh[1].points = <<P3(0, 0, 0)>>
    /\ inst[1].position = V3(0, 0, 5) /\ inst[1].scale = V3(1, 1, 1)
    /\ inst[1].visibilityState = VISIBLE

\* C5: an instance whose camera-space center is (0,0,-100) and whose radius
\* leaves it behind the near plane (center.z + radius < nearPlane) is
\* classified CULLED, whatever the side-plane tests would give.
BehindCamera(o) ==
    /\ CameraSpaceCenter(o) = P3(0, 0, -100)
    /\ Lt(Add(CameraSpaceCenter(o).z, getWorldBoundingRadius(inst[o])), nearPlane)

C5_BehindCulled == JustCulled(1) /\ BehindCamera(1) => inst[1].visibilityState = CULLED

\* A sphere of radius 60 at (0,0,-100) under tan(FOV/2) = 1/2: none of the
\* four side-plane tests rejects it, only the near-plane test does.
C5_Witness ==
    /\ JustCulled(1) /\ BehindCamera(1)
    /\ getWorldBoundingRadius(inst[1]) = I(60)
    /\ tanHalfFov = Q(1, 2)
    /\ inst[1].visibilityState = CULLED

\* C8: the world bounding radius is the mesh radius times the largest
\* absolute scale factor, is never negative, follows the scale set by
\* setScale / setUniformScale, and is no larger than the radius the same
\* instance has under any scale whose largest absolute factor is no smaller.
AbsFactors(v) == {MathAbs(v.x), MathAbs(v.y), MathAbs(v.z)}
LargestAbsFactor(v) == CHOOSE m \in AbsFactors(v) : \A k \in AbsFactors(v) : Le(k, m)

C8_RadiusOfScale ==
    /\ getWorldBoundingRadius(inst[1]) = Mul(mesh[1].boundingRadius, LargestAbsFactor(inst[1].scale))
    /\ Le(Zero, getWorldBoundingRadius(inst[1]))
    /\ lastOp.op = "setScale" => inst[1].scale = lastOp.arg
    /\ lastOp.op = "setUniformScale" => inst[1].scale = Vec(lastOp.arg, lastOp.arg, lastOp.arg)

ScaleSet == InitScaleSet \cup SetScaleSet \cup {Vec(k, k, k) : k \in UniformScaleSet}

OutsideNear(c, r) == Lt(Add(c.z, r), nearPlane)
OutsideFar(c, r) == Gt(Sub(c.z, r), farPlane)
OutsideRight(c, r) == Gt(Sub(c.x, r), Mul(Mul(tanHalfFov, c.z), aspectRatio))
OutsideLeft(c, r) == Lt(Add(c.x, r), Neg(Mul(Mul(tanHalfFov, c.z), aspectRatio)))
OutsideTop(c, r) == Gt(Sub(c.y, r), Mul(tanHalfFov, c.z))
OutsideBottom(c, r) == Lt(Add(c.y, r), Neg(Mul(tanHalfFov, c.z)))

-----------------------------------------------------------------------------
(* The projection functions applied to one camera-space point. *)

CameraPointSet ==
    {Point3D(a, b, c) : a \in {I(-2), I(0), I(1)}, b \in {I(-1), I(0), I(3)},
                        c \in {I(-5), I(0), Q(1, 20), Q(1, 10), I(1), I(5), I(1000)}}

Pending == [kind |-> "pending"]

InitProject ==
    /\ tanHalfFov \in TanSet
    /\ aspectRatio = One
    /\ camera = NoCamera
    /\ mesh = <<>>
    /\ inst = <<>>
    /\ objects = <<>>
    /\ pc = "idle"
    /\ idx = 0
    /\ trace = <<>>
    /\ fault = FALSE
    /\ lastOp = [op |-> "new"]
    /\ \E p \in CameraPointSet : probe = [kind |-> "point", arg |-> p, ndc |-> Pending, screen |-> Pending]
    /\ grid = NoGrid
    /\ anim = NoAnim

ProjectToNDC ==
    /\ probe.ndc = Pending
    /\ probe' = [probe EXCEPT !.ndc = projectToNDC(probe.arg)]
    /\ lastOp' = [op |-> "projectToNDC"]
    /\ UNCHANGED <<tanHalfFov, aspectRatio, camera, mesh, inst, objects, pc, idx, trace, fault, grid, anim>>

Project3DPoint ==
    /\ probe.screen = Pending
    /\ probe' = [probe EXCEPT !.screen = project3DPoint(probe.arg)]
    /\ lastOp' = [op |-> "project3DPoint"]
    /\ UNCHANGED <<tanHalfFov, aspectRatio, camera, mesh, inst, objects, pc, idx, trace, fault, grid, anim>>

NextProject == ProjectToNDC \/ Project3DPoint

SpecProject == InitProject /\ [][NextProject]_vars

\* C6: every camera-space point (0,0,d) with d > 0, also with 0 < d < 0.1
\* where z is clamped, is projected by project3DPoint to exactly
\* (HALF_SCREEN_WIDTH, HALF_SCREEN_HEIGHT).
OnPrincipalAxis(p) == p.x = Zero /\ p.y = Zero /\ Gt(p.z, Zero)

C6_AxisToScreenCentre ==
    probe.screen # Pending /\ OnPrincipalAxis(probe.arg)
        => probe.screen = Point2D(HALF_SCREEN_WIDTH, HALF_SCREEN_HEIGHT)

\* The clamped case: d = 1/20 is below the 0.1 clamp.
C6_Witness ==
    /\ probe.screen = Point2D(HALF_SCREEN_WIDTH, HALF_SCREEN_HEIGHT)
    /\ probe.arg = Point3D(Zero, Zero, Q(1, 20))

\* C20: projectToNDC divides by z' = max(z, 0.1), which is positive also for
\* z = 0 and z < 0; it returns a point of numbers with ndc.z = z', and for
\* z >= 0.1 the point (x * FOCAL_LENGTH / z, y * FOCAL_LENGTH / z, z).
C20_ClampedDepth ==
    (probe.kind = "point" /\ probe.ndc # Pending) =>
        /\ Gt(MathMax(probe.arg.z, Q(1, 10)), Zero)
        /\ IsNum(probe.ndc.x) /\ IsNum(probe.ndc.y) /\ IsNum(probe.ndc.z)
        /\ probe.ndc =
              Point3D(Div(Mul(probe.arg.x, FOCAL_LENGTH), MathMax(probe.arg.z, Q(1, 10))),
                      Div(Mul(probe.arg.y, FOCAL_LENGTH), MathMax(probe.arg.z, Q(1, 10))),
                      MathMax(probe.arg.z, Q(1, 10)))
        /\ Le(Q(1, 10), probe.arg.z) =>
              probe.ndc = Point3D(Div(Mul(probe.arg.x, FOCAL_LENGTH), probe.arg.z),
                                  Div(Mul(probe.arg.y, FOCAL_LENGTH), probe.arg.z),
                                  probe.arg.z)

\* A point on the camera plane, off the axis: z = 0 is divided as 0.1.
C20_Witness ==
    /\ probe.kind = "point"
    /\ probe.arg = P3(1, 3, 0)
    /\ tanHalfFov = One
    /\ probe.ndc = Point3D(I(10), I(30), Q(1, 10))

-----------------------------------------------------------------------------
(* One mesh under setPoints, setVertices and rotateMesh3DY. *)

\* The edges joining consecutive points of a list of k points (0-based
\* point indices, as in the code).
ChainEdges(k) == [i \in 1..(IF k > 1 THEN k - 1 ELSE 0) |-> Edge(i - 1, i)]

NewPointListSet == {<<>>, <<P3(5, 12, 0), P3(3, 0, 0)>>, <<P3(0, 0, 2)>>}
NewVerticesSet == {<<>>, <<Edge(0, 0)>>}

SetPoints(m, points) ==
    /\ Idle
    /\ mesh' = [mesh EXCEPT ![m] = setPoints(mesh[m], points)]
    /\ Observe([op |-> "setPoints", m |-> m])
    /\ UNCHANGED <<tanHalfFov, aspectRatio, camera, inst, objects, pc, idx, probe, grid, anim>>

SetVertices(m, vertices) ==
    /\ Idle
    /\ mesh' = [mesh EXCEPT ![m] = setVertices(mesh[m], vertices)]
    /\ Observe([op |-> "setVertices", m |-> m])
    /\ UNCHANGED <<tanHalfFov, aspectRatio, camera, inst, objects, pc, idx, probe, grid, anim>>

RotateMesh3DY(m, angleInDegrees) ==
    /\ Idle
    /\ mesh' = [mesh EXCEPT ![m] = rotateMesh3DY(mesh[m], angleInDegrees)]
    /\ Observe([op |-> "rotateMesh3DY", m |-> m, angle |-> angleInDegrees])
    /\ UNCHANGED <<tanHalfFov, aspectRatio, camera, inst, objects, pc, idx, probe, grid, anim>>

InitMesh ==
    /\ tanHalfFov = One
    /\ aspectRatio = One
    /\ camera = NoCamera
    /\ \E points \in PointListSet, json \in BOOLEAN :
          mesh = [m \in {1} |->
                    IF json
                    THEN createMesh3DFromJSONData(points, <<Polygon3D("#ff0000", <<0>>)>>)
                    ELSE Mesh3D(points, ChainEdges(Len(points)),
                                Array(<<Polygon3D("#ff0000", <<0>>)>>))]
    /\ inst = <<>>
    /\ objects = <<>>
    /\ pc = "idle"
    /\ idx = 0
    /\ trace = <<>>
    /\ fault = FALSE
    /\ lastOp = [op |-> "new"]
    /\ probe = NoProbe
    /\ grid = NoGrid
    /\ anim = NoAnim

NextMesh ==
    \/ \E points \in NewPointListSet : SetPoints(1, points)
    \/ \E vertices \in NewVerticesSet : SetVertices(1, vertices)
    \/ \E a \in {I(0), I(90), I(53)} : RotateMesh3DY(1, a)

SpecMesh == InitMesh /\ [][NextMesh]_vars

\* C7: after construction and after any sequence of setPoints, setVertices
\* and rotateMesh3DY calls, the bounding radius is the largest Euclidean
\* distance from the origin to a point of the mesh's current point list, and
\* 0 for an empty list.
OriginDistancesSquared(points) ==
    {DistSquared(points[i], P3(0, 0, 0)) : i \in 1..Len(points)}

IsLargestDistance(r, points) ==
    /\ Le(Zero, r)
    /\ points = <<>> => r = Zero
    /\ points # <<>> =>
          /\ Sq(r) \in OriginDistancesSquared(points)
          /\ \A d \in OriginDistancesSquared(points) : Le(d, Sq(r))

C7_RadiusNeverStale == IsLargestDistance(mesh[1].boundingRadius, mesh[1].points)

\* A mesh whose point list was replaced, then rotated: its radius is that of
\* the new list, 13.
C7_Witness ==
    /\ lastOp.op = "rotateMesh3DY"
    /\ lastOp.angle = I(53)
    /\ mesh[1].points = <<P3(5, 12, 0), P3(3, 0, 0)>>
    /\ mesh[1].boundingRadius = I(13)

\* C10: a rotateMesh3DY(mesh, 0) call leaves every point of the mesh and
\* the mesh's bounding radius as they were before the call.
C10_RotateZeroKeepsPoints ==
    [][lastOp' = [op |-> "rotateMesh3DY", m |-> 1, angle |-> Zero]
          => /\ mesh'[1].points = mesh[1].points
             /\ mesh'[1].boundingRadius = mesh[1].boundingRadius]_vars

C10_Witness ==
    /\ lastOp = [op |-> "rotateMesh3DY", m |-> 1, angle |-> Zero]
    /\ mesh[1].points = <<P3(1, 0, 0), P3(0, -3, 4)>>
    /\ mesh[1].boundingRadius = I(5)

\* C21: a rotateMesh3DY call changes only the coordinates of the mesh's
\* points: the number and order of the points, every point's y coordinate,
\* every point's distance from the origin, the mesh's edge list and the
\* mesh's face list are the same after the call as before it.
SameOriginDistances(before, after) ==
    /\ Len(after) = Len(before)
    /\ \A i \in 1..Len(before) :
          /\ after[i].y = before[i].y
          /\ DistSquared(after[i], P3(0, 0, 0)) = DistSquared(before[i], P3(0, 0, 0))

C21_RotateKeepsTopology ==
    [][lastOp'.op = "rotateMesh3DY"
          => /\ SameOriginDistances(mesh[1].points, mesh'[1].points)
             /\ mesh'[1].vertices = mesh[1].vertices
             /\ mesh'[1].polygons = mesh[1].polygons]_vars

-----------------------------------------------------------------------------
(* One createGridMesh call, cell by cell. *)

CellSizeSet == {Q(1, 2), I(1), I(2), I(3), I(4)}

InitGrid ==
    /\ tanHalfFov = One
    /\ aspectRatio = One
    /\ camera = NoCamera
    /\ mesh = <<>>
    /\ inst = <<>>
    /\ objects = <<>>
    /\ pc = "idle"
    /\ idx = 0
    /\ trace = <<>>
    /\ fault = FALSE
    /\ lastOp = [op |-> "new"]
    /\ probe = NoProbe
    /\ \E n \in 0..MaxGrid, c \in CellSizeSet :
          grid = [kind |-> "called", gridSize |-> n, cellSize |-> c, color |-> "#808080"]
    /\ anim = NoAnim

\* Entry: the point loops and the set-up of the edge map.
GridBegin ==
    /\ grid.kind = "called"
    /\ grid' = [kind |-> "cells", gridSize |-> grid.gridSize, cellSize |-> grid.cellSize,
                color |-> grid.color, points |-> GridPoints(grid.gridSize, grid.cellSize),
                locals |-> GridLocals, k |-> 0]
    /\ UNCHANGED <<tanHalfFov, aspectRatio, camera, mesh, inst, objects, pc, idx, trace,
                   fault, lastOp, probe, anim>>

\* One iteration of the cell loop.
GridNextCell ==
    /\ grid.kind = "cells"
    /\ grid.k < grid.gridSize * grid.gridSize
    /\ grid' = [grid EXCEPT
                  !.locals = GridCell(grid.locals, grid.k % grid.gridSize,
                                      grid.k \div grid.gridSize, grid.gridSize, grid.color),
                  !.k = grid.k + 1]
    /\ UNCHANGED <<tanHalfFov, aspectRatio, camera, mesh, inst, objects, pc, idx, trace,
                   fault, lastOp, probe, anim>>

\* return new Mesh3D(points, vertices, polygons)
GridReturn ==
    /\ grid.kind = "cells"
    /\ grid.k >= grid.gridSize * grid.gridSize
    /\ grid' = [kind |-> "returned", gridSize |-> grid.gridSize, cellSize |-> grid.cellSize,
                result |-> Mesh3D(grid.points, grid.locals.vertices, Array(grid.locals.polygons))]
    /\ lastOp' = [op |-> "createGridMesh"]
    /\ UNCHANGED <<tanHalfFov, aspectRatio, camera, mesh, inst, objects, pc, idx, trace,
                   fault, probe, anim>>

NextGrid == GridBegin \/ GridNextCell \/ GridReturn

SpecGrid == InitGrid /\ [][NextGrid]_vars

\* C9: createGridMesh(n, cellSize) returns an edge list of exactly
\* n*(n+1)*2 + n*n edges, no two of which join the same unordered pair of
\* points, and every index stored in a face is an index of the edge list.
Unordered(e) == {e.a, e.b}

C9_GridEdges ==
    grid.kind = "returned" =>
        LET n == grid.gridSize
            edges == grid.result.vertices
            faces == grid.result.polygons.arr
        IN  /\ Len(edges) = n * (n + 1) * 2 + n * n
            /\ \A i, j \in 1..Len(edges) : Unordered(edges[i]) = Unordered(edges[j]) => i = j
            /\ \A f \in 1..Len(faces) : \A i \in 1..Len(faces[f].vertexIndices) :
                  faces[f].vertexIndices[i] \in 0..(Len(edges) - 1)

\* A grid with interior edges shared by neighbouring cells: 2 x 2 cells,
\* 16 edges.
C9_Witness ==
    /\ grid.kind = "returned"
    /\ grid.gridSize = 2
    /\ Len(grid.result.vertices) = 16
    /\ Len(grid.result.polygons.arr) = 8

-----------------------------------------------------------------------------
(* The world: World.addObject / removeObject / clear and drawWorld, the    *)
(* latter one loop iteration at a time.                                    *)

MaxWorld == 3

\* The demo's two kinds of mesh: a floor grid from createGridMesh and a mesh
\* loaded by createMesh3DFromJSONData (one triangle).
TriangleData ==
    [vertices |-> <<P3(-1, 0, 0), P3(1, 0, 0), P3(0, 1, 0)>>,
     polygons |-> <<Polygon3D("#ff0000", <<0, 1, 2>>)>>]

InstanceIds == {1, 2, 3}
WorldPositionSet == {V3(0, 0, 5), V3(0, 0, -100)}

Init ==
    /\ tanHalfFov = One
    /\ aspectRatio = One
    /\ camera = NoCamera
    /\ mesh = <<createGridMesh(1, One, "#404040"),
                createMesh3DFromJSONData(TriangleData.vertices, TriangleData.polygons)>>
    /\ inst = <<SceneObject(1, V3(0, 0, 5), V3(0, 0, 0), V3(1, 1, 1)),
                SceneObject(2, V3(0, 0, 5), V3(0, 0, 0), V3(1, 1, 1)),
                SceneObject(1, V3(0, 0, -100), V3(0, 0, 0), V3(1, 1, 1))>>
    /\ objects = <<>>
    /\ pc = "idle"
    /\ idx = 0
    /\ trace = <<>>
    /\ fault = FALSE
    /\ lastOp = [op |-> "new"]
    /\ probe = NoProbe
    /\ grid = NoGrid
    /\ anim = NoAnim

AddObject(o) ==
    /\ Idle
    /\ Len(objects) < MaxWorld
    /\ objects' = Append(objects, o)
    /\ Observe([op |-> "addObject", o |-> o])
    /\ UNCHANGED <<tanHalfFov, aspectRatio, camera, mesh, inst, pc, idx, probe, grid, anim>>

RemoveObject(o) ==
    /\ Idle
    /\ objects' = SelectSeq(objects, LAMBDA obj : obj # o)
    /\ Observe([op |-> "removeObject", o |-> o])
    /\ UNCHANGED <<tanHalfFov, aspectRatio, camera, mesh, inst, pc, idx, probe, grid, anim>>

Clear ==
    /\ Idle
    /\ objects' = <<>>
    /\ Observe([op |-> "clear"])
    /\ UNCHANGED <<tanHalfFov, aspectRatio, camera, mesh, inst, pc, idx, probe, grid, anim>>

\* drawWorld is called: the culling pass starts at the first object.
DrawWorldBegin ==
    /\ Idle
    /\ pc' = "cull"
    /\ idx' = 1
    /\ Observe([op |-> "drawWorld"])
    /\ UNCHANGED <<tanHalfFov, aspectRatio, camera, mesh, inst, objects, probe, grid, anim>>

\* The culling loop has visited every element of getObjects(), reading the
\* loop too short by one.
CullPassDone_early == idx >= Len(objects)

\* The culling loop has visited every element of getObjects().
CullPassDone == idx > Len(objects)

\* One iteration of the culling pass.
CullStep ==
    /\ pc = "cull"
    /\ ~CullPassDone
    /\ LET o == objects[idx]
           state == cullSceneObject(o, camera)
       IN  /\ inst' = [inst EXCEPT ![o] = setVisibilityState(inst[o], state)]
           /\ trace' = Append(trace, [call |-> "setVisibilityState", o |-> o, state |-> state])
    /\ idx' = idx + 1
    /\ UNCHANGED <<tanHalfFov, aspectRatio, camera, mesh, objects, pc, fault, lastOp, probe,
                   grid, anim>>

\* The culling loop ends and the rendering pass starts.
CullDone ==
    /\ pc = "cull"
    /\ CullPassDone
    /\ pc' = "draw"
    /\ idx' = 1
    /\ UNCHANGED <<tanHalfFov, aspectRatio, camera, mesh, inst, objects, trace, fault, lastOp,
                   probe, grid, anim>>

\* The rendering pass after a drawSceneObject(o) call with outcome drawn; a
\* TypeError thrown by drawSceneObject ends the drawWorld call there.
AfterDrawSceneObject(o, drawn) ==
    /\ trace' = Append(trace, [call |-> "drawSceneObject", o |-> o]) \o drawn.calls
    /\ fault' = drawn.thrown
    /\ pc' = IF drawn.thrown THEN "idle" ELSE "draw"
    /\ idx' = IF drawn.thrown THEN 0 ELSE idx + 1

\* One iteration of the rendering pass.
DrawStep ==
    /\ pc = "draw"
    /\ idx <= Len(objects)
    /\ IF isVisible(objects[idx])
       THEN AfterDrawSceneObject(objects[idx], drawSceneObject(objects[idx], camera))
       ELSE /\ idx' = idx + 1
            /\ UNCHANGED <<trace, fault, pc>>
    /\ UNCHANGED <<tanHalfFov, aspectRatio, camera, mesh, inst, objects, lastOp, probe, grid, anim>>

\* drawWorld returns.
DrawDone ==
    /\ pc = "draw"
    /\ idx > Len(objects)
    /\ pc' = "idle"
    /\ idx' = 0
    /\ UNCHANGED <<tanHalfFov, aspectRatio, camera, mesh, inst, objects, trace, fault, lastOp,
                   probe, grid, anim>>

Next ==
    \/ \E o \in InstanceIds : AddObject(o)
    \/ \E o \in InstanceIds : RemoveObject(o)
    \/ Clear
    \/ \E o \in InstanceIds, v \in WorldPositionSet : SetPosition(o, v)
    \/ DrawWorldBegin
    \/ CullStep
    \/ CullDone
    \/ DrawStep
    \/ DrawDone

Spec == Init /\ [][Next]_vars

\* The positions in trace of the calls named c.
CallsAt(c) == {k \in 1..Len(trace) : trace[k].call = c}

\* The flag the latest setVisibilityState call of this frame wrote for o.
FrameFlag(o) ==
    LET ks == {k \in CallsAt("setVisibilityState") : trace[k].o = o}
        last == CHOOSE k \in ks : \A j \in ks : j <= k
    IN  trace[last].state

\* C2: within one drawWorld call the cull pass is complete for every instance
\* of the container before the draw pass starts: no drawLine call precedes a
\* setVisibilityState call, and while the draw pass runs every contained
\* instance has been culled in this frame and carries the flag written then.
C2_CullBeforeDraw ==
    /\ \A i \in CallsAt("drawLine") : \A j \in CallsAt("setVisibilityState") : j < i
    /\ pc = "draw" =>
          /\ \A k \in 1..Len(objects) :
                /\ k \in CallsAt("setVisibilityState")
                /\ trace[k].o = objects[k]
          /\ \A k \in 1..Len(objects) : inst[objects[k]].visibilityState = FrameFlag(objects[k])

\* A frame that culled one instance and kept another, and has drawn lines.
C2_Witness ==
    /\ pc = "draw"
    /\ CallsAt("drawLine") # {}
    /\ \E j, k \in CallsAt("setVisibilityState") :
          trace[j].state = CULLED /\ trace[k].state = VISIBLE

\* The subsequence of the contained instances that are VISIBLE.
VisibleObjects == SelectSeq(objects, isVisible)

\* The instances drawSceneObject was called for, in call order.
DrawnObjects ==
    LET calls == SelectSeq(trace, LAMBDA c : c.call = "drawSceneObject")
    IN  [k \in 1..Len(calls) |-> calls[k].o]

DrawWorldReturned == pc = "idle" /\ lastOp = [op |-> "drawWorld"]

\* C3: when a drawWorld call has ended, the instances it drew are exactly
\* the contained instances that are VISIBLE, in container order, and every
\* drawLine call belongs to a contained VISIBLE instance.
C3_DrawsExactlyVisible ==
    DrawWorldReturned =>
        /\ DrawnObjects = VisibleObjects
        /\ \A k \in CallsAt("drawLine") :
              \E j \in 1..Len(objects) : objects[j] = trace[k].o /\ isVisible(trace[k].o)

-----------------------------------------------------------------------------
(* A scene of two instances of one mesh, the mesh drawn from a set that    *)
(* holds empty, face-less, well-formed and malformed meshes: direct calls  *)
(* of cullSceneObject and drawSceneObject, and drawWorld.                  *)

TrianglePoints == <<P3(-1, 0, 0), P3(1, 0, 0), P3(0, 1, 0)>>
TriangleEdges == <<Edge(0, 1), Edge(1, 2), Edge(2, 0)>>

SceneMeshSet ==
    {Mesh3D(<<>>, <<>>, Array(<<>>)),
     Mesh3D(TrianglePoints, TriangleEdges, Array(<<>>)),
     Mesh3D(TrianglePoints, TriangleEdges, Array(<<Polygon3D("#00ff00", <<0, 1, 2>>)>>)),
     Mesh3D(TrianglePoints, TriangleEdges, Array(<<Polygon3D("#00ff00", <<0, 1, 3>>)>>)),
     Mesh3D(TrianglePoints, TriangleEdges,
            Array(<<Polygon3D("#00ff00", <<0, 1, 2>>), Polygon3D("#0000ff", <<0, -1, 2>>)>>)),
     createMesh3DFromJSONData(TriangleData.vertices, TriangleData.polygons),
     createMesh3DFromJSONData(<<>>, <<>>),
     createGridMesh(1, One, "#404040")}

SceneObjectsSet == {<<>>, <<1>>, <<1, 2>>, <<2, 1>>}

InitScene ==
    /\ tanHalfFov = One
    /\ aspectRatio = One
    /\ camera \in CameraSet
    /\ \E m \in SceneMeshSet : mesh = <<m>>
    /\ \E p1 \in WorldPositionSet, p2 \in WorldPositionSet :
          inst = <<SceneObject(1, p1, V3(0, 0, 0), V3(1, 1, 1)),
                   SceneObject(1, p2, V3(0, 90, 0), V3(2, 2, 2))>>
    /\ objects \in SceneObjectsSet
    /\ pc = "idle"
    /\ idx = 0
    /\ trace = <<>>
    /\ fault = FALSE
    /\ lastOp = [op |-> "new"]
    /\ probe = NoProbe
    /\ grid = NoGrid
    /\ anim = NoAnim

\* The state after a direct drawSceneObject(canvas, o, camera) call with
\* outcome drawn.
AfterDirectDraw(o, drawn) ==
    /\ trace' = <<[call |-> "drawSceneObject", o |-> o]>> \o drawn.calls
    /\ fault' = drawn.thrown
    /\ lastOp' = [op |-> "drawSceneObject", o |-> o]
    /\ UNCHANGED <<tanHalfFov, aspectRatio, camera, mesh, inst, objects, pc, idx, probe, grid, anim>>

\* A direct call of the exported drawSceneObject(canvas, sceneObject, camera).
DrawSceneObject(o) ==
    /\ Idle
    /\ AfterDirectDraw(o, drawSceneObject(o, camera))

\* The flags of the contained instances, in container order.
ContainedFlags == [k \in 1..Len(objects) |-> inst[objects[k]].visibilityState]

\* What a drawWorld call reads: the container, every instance's mesh and
\* transform (not its visibility flag), the meshes and the camera.
FrameInputs ==
    [objects |-> objects,
     transforms |-> [o \in DOMAIN inst |->
                        [mesh |-> inst[o].mesh, position |-> inst[o].position,
                         rotation |-> inst[o].rotation, scale |-> inst[o].scale]],
     mesh |-> mesh,
     camera |-> camera]

\* What a drawWorld call leaves: the flags of the contained instances, the
\* calls it made and whether it ended by a TypeError.
FrameOutputs ==
    [flags |-> ContainedFlags,
     trace |-> trace,
     fault |-> fault]

\* drawWorld is called.  When the previous operation was a drawWorld call
\* too, what that call read and left is kept for comparison; the flags this
\* call starts from are kept with it.
DrawWorldBeginRecorded ==
    /\ Idle
    /\ probe' = IF lastOp = [op |-> "drawWorld"]
                THEN [kind |-> "frame", inputs |-> FrameInputs, outputs |-> FrameOutputs,
                      start |-> ContainedFlags]
                ELSE IF probe.kind = "frame" THEN [probe EXCEPT !.start = ContainedFlags]
                ELSE probe
    /\ pc' = "cull"
    /\ idx' = 1
    /\ Observe([op |-> "drawWorld"])
    /\ UNCHANGED <<tanHalfFov, aspectRatio, camera, mesh, inst, objects, grid, anim>>

SceneInstanceIds == {1, 2}

NextScene ==
    \/ \E o \in SceneInstanceIds, v \in WorldPositionSet : SetPosition(o, v)
    \/ \E o \in SceneInstanceIds : CullSceneObject(o)
    \/ \E o \in SceneInstanceIds : DrawSceneObject(o)
    \/ DrawWorldBeginRecorded
    \/ CullStep
    \/ CullDone
    \/ DrawStep
    \/ DrawDone

SpecScene == InitScene /\ [][NextScene]_vars

-----------------------------------------------------------------------------
(* Drawing properties, checked under SpecScene. *)

\* The (face, position) pairs of a face list, each one edge of a face's
\* closed loop, and the order in which the polygon loop visits them.
LoopSteps(faces) ==
    UNION {{<<f, k>> : k \in 1..Len(faces[f].vertexIndices)} : f \in 1..Len(faces)}

Earlier(fk, gl) == fk[1] < gl[1] \/ (fk[1] = gl[1] /\ fk[2] < gl[2])

\* The two indices the loop step fk of a face list reads.
StepIndices(faces, fk) ==
    LET indices == faces[fk[1]].vertexIndices
    IN  {indices[fk[2]], indices[(fk[2] % Len(indices)) + 1]}

\* The loop steps of mesh m that read an index outside the array that
\* drawSceneObject indexes (one element per element of getVertices()).
BadSteps(m) ==
    {fk \in LoopSteps(m.polygons.arr) :
        \E i \in StepIndices(m.polygons.arr, fk) : i < 0 \/ i >= Len(m.vertices)}

Malformed(m) == IsArray(m.polygons) /\ BadSteps(m) # {}

\* The loop steps that come before every out-of-range reference.
StepsBeforeFault(m) ==
    {fk \in LoopSteps(m.polygons.arr) : \A bad \in BadSteps(m) : Earlier(fk, bad)}

\* C11: drawing an instance whose mesh has a face index out of range ends in
\* a fault at the first such reference: the drawSceneObject call is the last
\* one made, it raised a TypeError, and it issued drawLine calls only for the
\* loop steps before that reference, none for the out-of-range index itself
\* or after it (no clamping, no wrapping).
C11_MalformedFailsFast ==
    \A k \in CallsAt("drawSceneObject") :
        Malformed(mesh[inst[trace[k].o].mesh]) =>
            /\ fault
            /\ \A j \in CallsAt("drawSceneObject") : j <= k
            /\ Len(trace) - k = Cardinality(StepsBeforeFault(mesh[inst[trace[k].o].mesh]))
            /\ \A j \in (k + 1)..Len(trace) : trace[j].call = "drawLine"

\* A face <<0, 1, 3>> over three array elements: one line is drawn, then the
\* reference to index 3 faults.
C11_Witness ==
    /\ lastOp = [op |-> "drawWorld"]
    /\ fault
    /\ mesh[1].polygons = Array(<<Polygon3D("#00ff00", <<0, 1, 3>>)>>)
    /\ CallsAt("drawLine") # {}

\* A mesh without faces: built with an empty face list, or loaded by
\* createMesh3DFromJSONData from data without vertices and polygons.
NoFaces(m) == m.polygons = Array(<<>>) \/ m = createMesh3DFromJSONData(<<>>, <<>>)

\* C12: empty inputs are valid: a mesh without points has bounding radius 0
\* and cullSceneObject on an instance of it is the point-in-frustum test of
\* the instance position; a drawWorld call on an empty World or on a World
\* whose meshes have no faces makes no drawLine call and raises no fault.
C12_EmptyInputsValid ==
    /\ \A o \in DOMAIN inst :
          mesh[inst[o].mesh].points = <<>> =>
              /\ mesh[inst[o].mesh].boundingRadius = Zero
              /\ JustCulled(o) => (isVisible(o) <=> PointInFrustum(CameraSpaceCenter(o)))
    /\ (lastOp = [op |-> "drawWorld"] /\ objects = <<>>) =>
          CallsAt("drawLine") = {} /\ ~fault
    /\ (lastOp = [op |-> "drawWorld"] /\ \A k \in 1..Len(objects) :
                                            NoFaces(mesh[inst[objects[k]].mesh])) =>
          CallsAt("drawLine") = {} /\ ~fault

\* The steps of cullSceneObject, drawSceneObject and drawWorld.
PipelineStep == lastOp'.op \in {"cullSceneObject", "drawSceneObject", "drawWorld"}

\* C13: a step of cullSceneObject, drawSceneObject or drawWorld leaves the
\* instances' mesh, position, rotation and scale, the meshes, the camera and
\* the World's object list as they are; visibility flags change only in the
\* cull pass (or a direct cullSceneObject call) and drawLine calls are made
\* only in the draw pass (or a direct drawSceneObject call).
C13_FrameEffect ==
    [][PipelineStep =>
          /\ \A o \in DOMAIN inst :
                /\ inst'[o].mesh = inst[o].mesh
                /\ inst'[o].position = inst[o].position
                /\ inst'[o].rotation = inst[o].rotation
                /\ inst'[o].scale = inst[o].scale
          /\ mesh' = mesh
          /\ camera' = camera
          /\ objects' = objects
          /\ inst' # inst => (pc = "cull" \/ lastOp'.op = "cullSceneObject")
          /\ (trace' # trace /\ \E k \in 1..Len(trace') : trace'[k].call = "drawLine")
                => (pc = "draw" \/ lastOp'.op = "drawSceneObject")]_vars

\* A finished frame that culled an instance and drew lines for another.
C13_Witness ==
    /\ DrawWorldReturned
    /\ ~fault
    /\ CallsAt("drawLine") # {}
    /\ \E k \in 1..Len(objects) : inst[objects[k]].visibilityState = CULLED

\* C15: a drawWorld call that read the same container, instance transforms,
\* meshes and camera as an earlier drawWorld call leaves the same flags and
\* makes the same calls in the same order, whatever flags it started from.
C15_Deterministic ==
    (DrawWorldReturned /\ probe.kind = "frame" /\ probe.inputs = FrameInputs)
        => FrameOutputs = probe.outputs

\* A frame with the inputs of an earlier one that started from other flags
\* than it left, and drew lines.
C15_Witness ==
    /\ DrawWorldReturned
    /\ probe.kind = "frame"
    /\ probe.inputs = FrameInputs
    /\ probe.start # ContainedFlags
    /\ CallsAt("drawLine") # {}

\* A mesh whose faces list valid edge indices and whose edges join valid
\* point indices.
WellFormed(m) ==
    /\ IsArray(m.polygons)
    /\ BadSteps(m) = {}
    /\ \A e \in 1..Len(m.vertices) :
          {m.vertices[e].a, m.vertices[e].b} \subseteq 0..(Len(m.points) - 1)

\* The position of a loop step in the order of the polygon loop.
StepRank(faces, fk) == Cardinality({gl \in LoopSteps(faces) : Earlier(gl, fk)}) + 1

\* The line of loop step fk of instance o: the edge the face lists there,
\* joined between the screen points of its two mesh points, in the face's
\* color.
EdgeLine(o, fk) ==
    LET m == mesh[inst[o].mesh]
        face == m.polygons.arr[fk[1]]
        edge == m.vertices[face.vertexIndices[fk[2]] + 1]
        start == ScreenPoint(o, m.points[edge.a + 1])
        end == ScreenPoint(o, m.points[edge.b + 1])
    IN  [call |-> "drawLine", o |-> o, x1 |-> start.x, y1 |-> start.y,
         x2 |-> end.x, y2 |-> end.y, color |-> face.color]

\* C17: a drawSceneObject call for an instance of a well-formed mesh issues,
\* for every face in face order, one drawLine call per edge of the face's
\* loop, in the face's color, between the screen projections of the edge's
\* two mesh points, and nothing else.
C17_DrawsFaceEdges ==
    \A k \in CallsAt("drawSceneObject") :
        LET o == trace[k].o
            m == mesh[inst[o].mesh]
        IN  (WellFormed(m) /\ (lastOp.op = "drawSceneObject" \/ DrawWorldReturned)) =>
                /\ ~fault
                /\ \A fk \in LoopSteps(m.polygons.arr) :
                      /\ k + StepRank(m.polygons.arr, fk) <= Len(trace)
                      /\ trace[k + StepRank(m.polygons.arr, fk)] = EdgeLine(o, fk)


\* C25: for a mesh built by createGridMesh and drawn by drawSceneObject,
\* every drawLine call joins the screen projections of the two endpoint
\* points of an edge that is in the mesh's edge list and is listed by a face
\* of the mesh: the renderer resolves the faces' indices as createGridMesh
\* stored them and projects the mesh's point list.
JoinsEdge(call, o, edge) ==
    LET m == mesh[inst[o].mesh]
        p == ScreenPoint(o, m.points[edge.a + 1])
        q == ScreenPoint(o, m.points[edge.b + 1])
    IN  {Point2D(call.x1, call.y1), Point2D(call.x2, call.y2)} = {p, q}

FaceEdges(m) ==
    {m.vertices[m.polygons.arr[f].vertexIndices[k] + 1] :
        <<f, k>> \in LoopSteps(m.polygons.arr)}

C25_GridLinesJoinEdgePoints ==
    \A k \in CallsAt("drawLine") :
        mesh[inst[trace[k].o].mesh] = createGridMesh(1, One, "#404040") =>
            \E edge \in FaceEdges(mesh[inst[trace[k].o].mesh]) :
                JoinsEdge(trace[k], trace[k].o, edge)

-----------------------------------------------------------------------------
(* The orbiting camera: Camera.createOrbital as the animation loop calls   *)
(* it, with a new horizontal angle each time, and the target seen from     *)
(* the camera it returns.                                                  *)

DistanceSet == {I(10), I(5), I(-4), I(0)}
ElevationSet == {I(0), I(45), I(-45), I(90), I(-90), I(53), I(135), I(180), I(-127)}
TargetSet == {V3(0, 0, 0), V3(1, 2, 3), V3(-2, 0, 5)}

InitOrbital ==
    /\ tanHalfFov = One
    /\ aspectRatio = One
    /\ camera = NoCamera
    /\ mesh = <<>>
    /\ inst = <<>>
    /\ objects = <<>>
    /\ pc = "idle"
    /\ idx = 0
    /\ trace = <<>>
    /\ fault = FALSE
    /\ lastOp = [op |-> "new"]
    /\ \E distance \in DistanceSet, angleX \in ElevationSet, target \in TargetSet :
          probe = [kind |-> "orbital", distance |-> distance, angleX |-> angleX,
                   target |-> target, seen |-> Pending]
    /\ grid = NoGrid
    /\ anim = NoAnim

\* camera = Camera.createOrbital(distance, cameraAngle, angleX, target)
CreateOrbital(cameraAngle) ==
    /\ camera' = createOrbital(probe.distance, cameraAngle, probe.angleX, probe.target)
    /\ probe' = [probe EXCEPT !.seen = Pending]
    /\ lastOp' = [op |-> "createOrbital", angleY |-> cameraAngle]
    /\ UNCHANGED <<tanHalfFov, aspectRatio, mesh, inst, objects, pc, idx, trace, fault, grid, anim>>

\* worldToCameraSpace(target, camera) for the camera created last.
SeeTarget ==
    /\ lastOp.op = "createOrbital"
    /\ probe.seen = Pending
    /\ probe' = [probe EXCEPT !.seen = worldToCameraSpace(probe.target, camera)]
    /\ UNCHANGED <<tanHalfFov, aspectRatio, camera, mesh, inst, objects, pc, idx, trace, fault,
                   lastOp, grid, anim>>

NextOrbital ==
    \/ \E cameraAngle \in Angles : CreateOrbital(cameraAngle)
    \/ SeeTarget

SpecOrbital == InitOrbital /\ [][NextOrbital]_vars

\* C14: the camera createOrbital returns is at distance |distance| from the
\* target and sees the target on its principal axis, at (0, 0, |distance|),
\* for every horizontal angle, every elevation and every target.
C14_OrbitalFacesTarget ==
    (probe.kind = "orbital" /\ lastOp.op = "createOrbital") =>
        /\ DistSquared(camera.position, probe.target) = Sq(probe.distance)
        /\ probe.seen # Pending =>
              probe.seen = Point3D(Zero, Zero, MathAbs(probe.distance))

\* An orbit above the target's horizon, looked at from beyond the pole.
C14_Witness ==
    /\ probe.kind = "orbital"
    /\ lastOp = [op |-> "createOrbital", angleY |-> I(45)]
    /\ probe.angleX = I(135)
    /\ probe.distance = I(10)
    /\ probe.seen = P3(0, 0, 10)

-----------------------------------------------------------------------------
(* The two point transforms on their own: applyTransformToPoint for one    *)
(* instance and worldToCameraSpace for one camera, over a set of points.   *)

TransformPointSet == {P3(0, 0, 0), P3(1, 2, 3), P3(-2, 0, 5), Point3D(Q(1, 2), I(-1), I(4))}
TransformPositionSet == {V3(0, 0, 0), V3(1, 2, 3)}
RotationSet ==
    {V3(0, 0, 0), V3(0, 90, 0), V3(90, 0, 0), V3(0, 0, -90), V3(53, 45, 90),
     V3(-45, 180, 53), V3(90, 90, 0)}
TransformScaleSet == {V3(1, 1, 1), Vec(I(2), I(-1), Q(1, 2))}

InitTransform ==
    /\ tanHalfFov = One
    /\ aspectRatio = One
    /\ \E position \in TransformPositionSet, rotation \in RotationSet :
          camera = Camera(position, rotation)
    /\ mesh = <<Mesh3D(<<>>, <<>>, Array(<<>>))>>
    /\ \E position \in TransformPositionSet, rotation \in RotationSet,
          scale \in TransformScaleSet :
          inst = <<SceneObject(1, position, rotation, scale)>>
    /\ objects = <<>>
    /\ pc = "idle"
    /\ idx = 0
    /\ trace = <<>>
    /\ fault = FALSE
    /\ lastOp = [op |-> "new"]
    /\ \E p \in TransformPointSet :
          probe = [kind |-> "transform", arg |-> p, worldPoint |-> Pending,
                   cameraPoint |-> Pending]
    /\ grid = NoGrid
    /\ anim = NoAnim

\* worldPoint = applyTransformToPoint(point, sceneObject)
ApplyTransformToPoint ==
    /\ probe' = [probe EXCEPT !.worldPoint = applyTransformToPoint(probe.arg, inst[1])]
    /\ lastOp' = [op |-> "applyTransformToPoint"]
    /\ UNCHANGED <<tanHalfFov, aspectRatio, camera, mesh, inst, objects, pc, idx, trace, fault,
                   grid, anim>>

\* cameraPoint = worldToCameraSpace(point, camera)
WorldToCameraSpace ==
    /\ probe' = [probe EXCEPT !.cameraPoint = worldToCameraSpace(probe.arg, camera)]
    /\ lastOp' = [op |-> "worldToCameraSpace"]
    /\ UNCHANGED <<tanHalfFov, aspectRatio, camera, mesh, inst, objects, pc, idx, trace, fault,
                   grid, anim>>

NextTransform == ApplyTransformToPoint \/ WorldToCameraSpace

SpecTransform == InitTransform /\ [][NextTransform]_vars

\* p translated by v, and by the negated v.
Translated(p, v) == Point3D(Add(p.x, v.x), Add(p.y, v.y), Add(p.z, v.z))
TranslatedBack(p, v) == Point3D(Sub(p.x, v.x), Sub(p.y, v.y), Sub(p.z, v.z))

\* C18: worldToCameraSpace(p, camera) is p translated by the negated camera
\* position, then rotated about Y by -rotation.y, about X by -rotation.x and
\* about Z by -rotation.z; the camera's own position maps to (0,0,0) under
\* every rotation, and without rotation the result is p - camera.position.
C18_InverseViewTransform ==
    (probe.kind = "transform" /\ probe.cameraPoint # Pending) =>
        /\ probe.cameraPoint =
              RotZ(RotX(RotY(TranslatedBack(probe.arg, camera.position),
                             Neg(camera.rotation.y)),
                        Neg(camera.rotation.x)),
                   Neg(camera.rotation.z))
        /\ TranslatedBack(probe.arg, camera.position) = P3(0, 0, 0)
              => probe.cameraPoint = P3(0, 0, 0)
        /\ camera.rotation = V3(0, 0, 0)
              => probe.cameraPoint = TranslatedBack(probe.arg, camera.position)

\* The camera's own position under a rotation about all three axes.
C18_Witness ==
    /\ probe.kind = "transform"
    /\ camera = Camera(V3(1, 2, 3), V3(53, 45, 90))
    /\ probe.arg = P3(1, 2, 3)
    /\ probe.cameraPoint = P3(0, 0, 0)

\* C19: applyTransformToPoint(p, instance) is p scaled per axis, rotated
\* about X, then Y, then Z by the instance's angles (an angle of 0 rotating
\* by nothing), then translated by the instance position; the call leaves
\* the point and the instance as they were.
C19_ScaleRotateTranslate ==
    [][lastOp'.op = "applyTransformToPoint" =>
          /\ probe'.worldPoint =
                Translated(RotZ(RotY(RotX(Point3D(Mul(probe.arg.x, inst[1].scale.x),
                                                  Mul(probe.arg.y, inst[1].scale.y),
                                                  Mul(probe.arg.z, inst[1].scale.z)),
                                          inst[1].rotation.x),
                                     inst[1].rotation.y),
                                inst[1].rotation.z),
                           inst[1].position)
          /\ probe'.arg = probe.arg
          /\ inst' = inst]_vars

\* (1, 2, 3) scaled by (2, -1, 1/2), turned about Y only and moved.
C19_Witness ==
    /\ probe.kind = "transform"
    /\ probe.arg = P3(1, 2, 3)
    /\ inst[1].scale = Vec(I(2), I(-1), Q(1, 2))
    /\ inst[1].rotation = V3(0, 90, 0)
    /\ inst[1].position = V3(1, 2, 3)
    /\ probe.worldPoint = Point3D(Q(5, 2), I(0), I(1))

-----------------------------------------------------------------------------
(* One instance of one mesh under every transform of a bounded set: the    *)
(* bounding sphere of culling against the transformed mesh points.         *)

SpherePointListSet ==
    {<<>>, <<P3(3, 0, 0)>>, <<P3(1, 0, 0), P3(0, -3, 4)>>, <<P3(1, 1, 0), P3(0, -1, 0)>>,
     <<P3(2, -2, 1), P3(0, 0, 3), P3(-1, 2, 2)>>}

SetRotation(o, v) ==
    /\ Idle
    /\ inst' = [inst EXCEPT ![o].rotation = v]
    /\ Observe([op |-> "setRotation", o |-> o, arg |-> v])
    /\ UNCHANGED <<tanHalfFov, aspectRatio, camera, mesh, objects, pc, idx, probe, grid, anim>>

InitSphere ==
    /\ tanHalfFov = One
    /\ aspectRatio = One
    /\ camera = NoCamera
    /\ \E points \in SpherePointListSet :
          mesh = <<Mesh3D(points, ChainEdges(Len(points)), Array(<<>>))>>
    /\ \E position \in TransformPositionSet, rotation \in RotationSet,
          scale \in TransformScaleSet :
          inst = <<SceneObject(1, position, rotation, scale)>>
    /\ objects = <<>>
    /\ pc = "idle"
    /\ idx = 0
    /\ trace = <<>>
    /\ fault = FALSE
    /\ lastOp = [op |-> "new"]
    /\ probe = NoProbe
    /\ grid = NoGrid
    /\ anim = NoAnim

NextSphere ==
    \/ \E v \in SetScaleSet : SetScale(1, v)
    \/ \E k \in UniformScaleSet : SetUniformScale(1, k)
    \/ \E v \in RotationSet : SetRotation(1, v)
    \/ \E v \in TransformPositionSet : SetPosition(1, v)
    \/ \E points \in NewPointListSet : SetPoints(1, points)
    \/ \E a \in {I(90), I(53)} : RotateMesh3DY(1, a)

SpecSphere == InitSphere /\ [][NextSphere]_vars

\* C24: the bounding sphere used by culling contains the instance's
\* geometry: for every position, Euler rotation and per-axis scale (negative
\* factors included) and every point p of the instance's mesh, the distance
\* from applyTransformToPoint(p, instance) to the instance position is at
\* most getWorldBoundingRadius().
C24_SphereContainsGeometry ==
    \A i \in 1..Len(mesh[inst[1].mesh].points) :
        /\ Le(Zero, getWorldBoundingRadius(inst[1]))
        /\ Le(DistSquared(applyTransformToPoint(mesh[inst[1].mesh].points[i], inst[1]),
                          inst[1].position),
              Sq(getWorldBoundingRadius(inst[1])))

\* The point (3, 0, 0) under the scale (-2, 1, 0) and a rotation about all
\* three axes lies on the sphere of radius 6.
C24_Witness ==
    /\ mesh[1].points = <<P3(3, 0, 0)>>
    /\ inst[1].scale = V3(-2, 1, 0)
    /\ inst[1].rotation = V3(53, 45, 90)
    /\ inst[1].position = V3(1, 2, 3)
    /\ getWorldBoundingRadius(inst[1]) = I(6)
    /\ DistSquared(applyTransformToPoint(P3(3, 0, 0), inst[1]), inst[1].position) = I(36)

-----------------------------------------------------------------------------
(* The entry file: main's scene and the animation loop, one statement of   *)
(* loop at a time, drawWorld one loop iteration at a time.                 *)

MaxFrames == 3

ROTATION_SPEED == I(20)
CAMERA_ORBIT_SPEED == I(30)

\* The time in milliseconds between two frames: the timestamp handed to loop
\* by requestAnimationFrame is the previous one plus one of these.
FrameGapSet == {I(4500), I(9000)}

\* main's three meshes.  cube.json and pyramid.json are not part of the
\* sources: one triangle stands for either.  main loads both with
\* createMesh3DFromJSONData (fromJSON); with such a mesh the first frame ends
\* in the TypeError of drawSceneObject and no further frame is requested, so
\* the loop is also run over the same data given to the three-argument
\* constructor of Mesh3D.ts.  The floor is createGridMesh(16, 0.5, "#404040")
\* in main and one cell of it here.
MainMeshes(fromJSON) ==
    LET loaded == IF fromJSON
                  THEN createMesh3DFromJSONData(TriangleData.vertices, TriangleData.polygons)
                  ELSE Mesh3D(TriangleData.vertices, TriangleEdges,
                              Array(TriangleData.polygons))
    IN  <<loaded, loaded, createGridMesh(1, Q(1, 2), "#404040")>>

\* main's scene objects: cube1, cube2, cube3 share mesh 1; pyramid; floor.
MainObjects ==
    <<SceneObject(1, V3(-4, 0, 0), V3(0, 0, 0), Vec(Q(4, 5), Q(4, 5), Q(4, 5))),
      SceneObject(1, V3(0, 0, 0), V3(0, 0, 0), V3(1, 1, 1)),
      SceneObject(1, V3(4, 0, 0), V3(0, 45, 0), Vec(Q(6, 5), Q(6, 5), Q(6, 5))),
      SceneObject(2, V3(0, 0, 13), V3(0, 0, 0), Vec(Q(3, 2), Q(3, 2), Q(3, 2))),
      SceneObject(3, V3(0, -2, 0), V3(0, 0, 0), V3(1, 1, 1))>>

\* The state when main calls loop() for the first time.
InitLoop ==
    /\ tanHalfFov \in TanSet
    /\ aspectRatio \in AspectSet
    /\ camera = createOrbital(I(10), Zero, Zero, V3(0, 0, 0))
    /\ \E fromJSON \in BOOLEAN : mesh = MainMeshes(fromJSON)
    /\ inst = MainObjects
    /\ objects = <<5, 1, 2, 3, 4>>
    /\ pc = "idle"
    /\ idx = 0
    /\ trace = <<>>
    /\ fault = FALSE
    /\ lastOp = [op |-> "main"]
    /\ probe = NoProbe
    /\ grid = NoGrid
    /\ anim = [kind |-> "loop", at |-> "scheduled", frame |-> 0, lastFrameTime |-> Zero,
               cameraAngle |-> Zero, cubeObjects |-> <<1, 2, 3>>, currentTime |-> Zero,
               deltaTime |-> Zero, rotationAmount |-> Zero, k |-> 0, start |-> <<>>]

\* loop(currentTime) up to its rotation step: deltaTime, lastFrameTime,
\* canvas.clearScreen() and rotationAmount.  start keeps the meshes as
\* the frame found them.
LoopBegin(currentTime) ==
    /\ Idle
    /\ anim.at = "scheduled"
    /\ anim.frame < MaxFrames
    /\ anim' = [anim EXCEPT
                  !.deltaTime = IF anim.lastFrameTime = Zero THEN Zero
                                ELSE Div(Sub(currentTime, anim.lastFrameTime), I(1000)),
                  !.rotationAmount =
                      Mul(ROTATION_SPEED,
                          IF anim.lastFrameTime = Zero THEN Zero
                          ELSE Div(Sub(currentTime, anim.lastFrameTime), I(1000))),
                  !.lastFrameTime = currentTime,
                  !.currentTime = currentTime,
                  !.at = "rotate",
                  !.k = 1,
                  !.frame = anim.frame + 1,
                  !.start = mesh]
    /\ trace' = <<[call |-> "clearScreen"]>>
    /\ fault' = FALSE
    /\ lastOp' = [op |-> "loop"]
    /\ UNCHANGED <<tanHalfFov, aspectRatio, camera, mesh, inst, objects, pc, idx, probe, grid>>

\* main's call loop(): currentTime takes its default, 0.
LoopFirstFrame == anim.frame = 0 /\ LoopBegin(Zero)

\* The call of loop by requestAnimationFrame.
LoopNextFrame ==
    /\ anim.frame > 0
    /\ \E gap \in FrameGapSet : LoopBegin(Add(anim.currentTime, gap))

\* One iteration of cubeObjects.forEach: rotateMesh3DY(cubeObj.getMesh(),
\* rotationAmount).
LoopRotateStep ==
    /\ anim.at = "rotate"
    /\ anim.k <= Len(anim.cubeObjects)
    /\ mesh' = [mesh EXCEPT ![inst[anim.cubeObjects[anim.k]].mesh] =
                   rotateMesh3DY(mesh[inst[anim.cubeObjects[anim.k]].mesh],
                                 anim.rotationAmount)]
    /\ anim' = [anim EXCEPT !.k = anim.k + 1]
    /\ UNCHANGED <<tanHalfFov, aspectRatio, camera, inst, objects, pc, idx, trace, fault,
                   lastOp, probe, grid>>

\* cameraAngle += CAMERA_ORBIT_SPEED * deltaTime and the new orbital camera.
LoopOrbitCamera ==
    /\ anim.at = "rotate"
    /\ anim.k > Len(anim.cubeObjects)
    /\ anim' = [anim EXCEPT
                  !.cameraAngle = Add(anim.cameraAngle, Mul(CAMERA_ORBIT_SPEED, anim.deltaTime)),
                  !.at = "drawWorld"]
    /\ camera' = createOrbital(I(10),
                               Add(anim.cameraAngle, Mul(CAMERA_ORBIT_SPEED, anim.deltaTime)),
                               Zero, V3(0, 0, 0))
    /\ UNCHANGED <<tanHalfFov, aspectRatio, mesh, inst, objects, pc, idx, trace, fault, lastOp,
                   probe, grid>>

\* The loop's drawWorld call clearing the canvas once more before its passes.
LoopDrawWorld_clears ==
    /\ anim.at = "drawWorld"
    /\ pc' = "cull"
    /\ idx' = 1
    /\ trace' = Append(trace, [call |-> "clearScreen"])
    /\ lastOp' = [op |-> "drawWorld"]
    /\ anim' = [anim EXCEPT !.at = "drawing"]
    /\ UNCHANGED <<tanHalfFov, aspectRatio, camera, mesh, inst, objects, fault, probe, grid>>

\* drawWorld(canvas, world, camera) is called: its culling pass starts.
LoopDrawWorld ==
    /\ anim.at = "drawWorld"
    /\ pc' = "cull"
    /\ idx' = 1
    /\ lastOp' = [op |-> "drawWorld"]
    /\ anim' = [anim EXCEPT !.at = "drawing"]
    /\ UNCHANGED <<tanHalfFov, aspectRatio, camera, mesh, inst, objects, trace, fault, probe,
                   grid>>

\* drawWorld has returned: requestAnimationFrame(loop).  The console.log
\* branch before it only reads, and its condition compares currentTime with
\* lastFrameTime, which are equal.  After a TypeError the statement is not
\* reached and no frame follows.
LoopRequestFrame ==
    /\ anim.at = "drawing"
    /\ Idle
    /\ ~fault
    /\ anim' = [anim EXCEPT !.at = "scheduled"]
    /\ UNCHANGED <<tanHalfFov, aspectRatio, camera, mesh, inst, objects, pc, idx, trace, fault,
                   lastOp, probe, grid>>

NextLoop ==
    \/ LoopFirstFrame
    \/ LoopNextFrame
    \/ LoopRotateStep
    \/ LoopOrbitCamera
    \/ LoopDrawWorld
    \/ CullStep
    \/ CullDone
    \/ DrawStep
    \/ DrawDone
    \/ LoopRequestFrame

SpecLoop == InitLoop /\ [][NextLoop]_vars

\* C22: in one frame of the animation loop each cube scene object's mesh is
\* rotated about Y by rotationAmount = ROTATION_SPEED * deltaTime degrees;
\* after the frame's rotation step the geometry of cube1, cube2 and cube3
\* has each turned by exactly rotationAmount relative to the previous frame.
RotationStepDone ==
    \/ anim.at = "rotate" /\ anim.k > Len(anim.cubeObjects)
    \/ anim.at \in {"drawWorld", "drawing"}

Geometry(o, meshes) == meshes[inst[o].mesh].points

Turned(points, angleInDegrees) ==
    [i \in 1..Len(points) |-> RotatedVertex(points[i], angleInDegrees)]

C23_ClearOncePerFrame ==
    anim.frame > 0 =>
        /\ Cardinality(CallsAt("clearScreen")) = 1
        /\ \A c \in CallsAt("clearScreen") :
              \A i \in CallsAt("setVisibilityState") \cup CallsAt("drawSceneObject")
                          \cup CallsAt("drawLine") : c < i

\* The third frame, past its cull pass, with lines drawn.
C23_Witness ==
    /\ anim.frame = 3
    /\ anim.deltaTime = Q(9, 2)
    /\ pc = "draw"
    /\ CallsAt("setVisibilityState") # {}
    /\ CallsAt("drawLine") # {}

=============================================================================
